---- MODULE Spec2Model ----
(***************************************************************************)
(* OverlayFrameNumber.process (src/OverlayFrameNumber.py) as a state       *)
(* machine: one invocation validates the batch, resolves a font, then      *)
(* walks the frames in index order drawing a caption on a copy of each,    *)
(* and finally stacks the copies into the returned tensor.                 *)
(*                                                                         *)
(* Text that the code slices or pads (the prefix, the caption) is a        *)
(* sequence of one-character strings; names and file paths are strings.    *)
(* A float pixel in [0,1] is kept in thousandths, a uint8 pixel in 0..255. *)
(***************************************************************************)
EXTENDS Integers, Sequences, FiniteSets, TLC

VARIABLES
    pc,             \* where process is: "idle", "font", "loop" or "done"
    args,           \* the arguments of the running call: images, cfg, and env,
                    \* the platform, file system and Pillow it runs on
    heap,           \* pixel storage: address 0 is img, 1..N the caller's frames
    font_path,      \* the resolved font handle
    i,              \* the loop index
    output_images,  \* the frames collected so far
    log,            \* the messages the call has printed
    outcome,        \* what the call raised or returned
    calls           \* the earlier invocations, with their outcomes

vars == <<pc, args, heap, font_path, i, output_images, log, outcome, calls>>

(***************************************************************************)
(* Bounds of the model.                                                    *)
(***************************************************************************)
MaxFrames == 2
BigBatch == 101
MaxCalls == 2

(***************************************************************************)
(* Python values.                                                          *)
(***************************************************************************)
\* None, where a colour triple could stand.
None == <<>>

NoBuffer == [kind |-> "free", dims |-> <<>>, mode |-> "", px |-> 0, ink |-> <<>>]

NoOutcome == [status |-> "none", error |-> "", value |-> <<>>]

Raised(err) == [status |-> "raised", error |-> err, value |-> <<>>]

Returned(t) == [status |-> "returned", error |-> "", value |-> t]

(***************************************************************************)
(* color_map: the nine colour names and their RGB triples.                 *)
(***************************************************************************)
color_map(name) ==
    CASE name = "white"   -> <<255, 255, 255>>
      [] name = "black"   -> <<0, 0, 0>>
      [] name = "red"     -> <<255, 0, 0>>
      [] name = "green"   -> <<0, 255, 0>>
      [] name = "blue"    -> <<0, 0, 255>>
      [] name = "yellow"  -> <<255, 255, 0>>
      [] name = "cyan"    -> <<0, 255, 255>>
      [] name = "magenta" -> <<255, 0, 255>>
      [] name = "none"    -> None

\* outline_color_rgb = color_map[outline_color] if outline_enabled and
\* outline_color != "none" else None
outline_color_rgb(cfg) ==
    IF cfg.outline_enabled /\ cfg.outline_color # "none"
    THEN color_map(cfg.outline_color)
    ELSE None

(***************************************************************************)
(* Font resolution.                                                        *)
(***************************************************************************)
\* font_map.get(font, font + ".ttf")
font_file(font) ==
    CASE font = "Arial"           -> "arial.ttf"
      [] font = "DejaVuSans"      -> "DejaVuSans.ttf"
      [] font = "Times New Roman" -> "times.ttf"
      [] font = "Courier New"     -> "cour.ttf"
      [] OTHER                    -> font \o ".ttf"

\* The candidate directories, in the order the code tries them.
font_dirs(platform) ==
    CASE platform = "Windows" -> <<"C:\\Windows\\Fonts">>
      [] platform = "Darwin"  -> <<"/System/Library/Fonts", "/Library/Fonts", "~/Library/Fonts">>
      [] OTHER                -> <<"/usr/share/fonts", "/usr/local/share/fonts", "~/.fonts">>

\* os.path.join(font_dir, font_file)
PathJoin(dir, file) == dir \o "/" \o file

TrueTypeFont(path, size) == [kind |-> "truetype", path |-> path, size |-> size]

DefaultFont == [kind |-> "default", path |-> "", size |-> 0]

\* No handle (yet).
NoFont == [kind |-> "none", path |-> "", size |-> 0]

\* A search that gives up at the first candidate that exists but does not load
\* (`break` where the code has `continue`).
RECURSIVE SearchFontDirsUntilBroken(_, _, _, _, _)
SearchFontDirsUntilBroken(env, dirs, file, size, k) ==
    IF k > Len(dirs) THEN NoFont
    ELSE IF env.candidates[k] = "ok"
         THEN TrueTypeFont(PathJoin(dirs[k], file), size)
    ELSE IF env.candidates[k] = "broken" THEN NoFont
    ELSE SearchFontDirsUntilBroken(env, dirs, file, size, k + 1)

\* The loop over font_dirs from position k: the handle of the first candidate
\* that exists and loads, or NoFont when the loop runs out (font_found False).
\* env.candidates[k] is what the file system holds at the k-th candidate path:
\* "missing" (os.path.exists is False), "broken" (exists, truetype raises
\* OSError, the loop continues) or "ok".
RECURSIVE SearchFontDirs(_, _, _, _, _)
SearchFontDirs(env, dirs, file, size, k) ==
    IF k > Len(dirs) THEN NoFont
    ELSE IF env.candidates[k] = "ok"
         THEN TrueTypeFont(PathJoin(dirs[k], file), size)
    ELSE SearchFontDirs(env, dirs, file, size, k + 1)

FontWarning(file) == "Font " \o file \o " not found, using default font"

OutlineWarning == "Text outline not supported in this Pillow version; rendering without outline"

\* Lines 98-122: <<font handle, messages printed>>.
LoadFont(cfg, env) ==
    LET file == font_file(cfg.font) IN
    IF env.direct
    THEN <<TrueTypeFont(file, cfg.font_size), <<>> >>
    ELSE LET found == SearchFontDirs(env, font_dirs(env.platform), file, cfg.font_size, 1) IN
         IF found # NoFont
         THEN <<found, <<>> >>
         ELSE <<DefaultFont, <<FontWarning(file)>> >>

(***************************************************************************)
(* Caption text.                                                           *)
(***************************************************************************)
Digit == <<"0", "1", "2", "3", "4", "5", "6", "7", "8", "9">>

Whitespace == {" ", "\t", "\n"}

\* str(n) for n >= 0
RECURSIVE DecimalDigits(_)
DecimalDigits(n) ==
    IF n < 10 THEN <<Digit[n + 1]>>
    ELSE DecimalDigits(n \div 10) \o <<Digit[(n % 10) + 1]>>

\* The 0{width}d format: zeros on the left up to width, never fewer digits.
RECURSIVE ZeroFill(_, _)
ZeroFill(s, width) ==
    IF Len(s) >= width THEN s ELSE ZeroFill(<<"0">> \o s, width)

\* The number the caption of loop index idx shows.
FrameOrdinal(idx) == idx + 1

\* A format that cuts the number down to the padding width.
frame_number_clipped(idx, num_padding) ==
    LET s == ZeroFill(DecimalDigits(FrameOrdinal(idx)), num_padding)
    IN  SubSeq(s, Len(s) - num_padding + 1, Len(s))

\* frame_number = f"{i + 1:0{num_padding}d}"
frame_number(idx, num_padding) == ZeroFill(DecimalDigits(FrameOrdinal(idx)), num_padding)

\* str.strip()
RECURSIVE LStrip(_)
LStrip(s) ==
    IF s # <<>> /\ Head(s) \in Whitespace THEN LStrip(Tail(s)) ELSE s

RECURSIVE RStrip(_)
RStrip(s) ==
    IF s # <<>> /\ s[Len(s)] \in Whitespace THEN RStrip(SubSeq(s, 1, Len(s) - 1)) ELSE s

Strip(s) == RStrip(LStrip(s))

\* text = f"{prefix_text} {frame_number}" if prefix_text.strip() else frame_number
CaptionText(idx, cfg) ==
    IF Strip(cfg.prefix_text) # <<>>
    THEN cfg.prefix_text \o <<" ">> \o frame_number(idx, cfg.num_padding)
    ELSE frame_number(idx, cfg.num_padding)

(***************************************************************************)
(* Text measurement (draw.textbbox, or draw.textsize on an older Pillow):  *)
(* the collaborator's answer for the resolved font is env.glyph, the       *)
(* advance and the height of one glyph.                                    *)
(***************************************************************************)
TextWidth(text, env) == Len(text) * env.glyph[1]

TextHeight(text, env) == env.glyph[2]

(***************************************************************************)
(* Draw origin.                                                            *)
(***************************************************************************)
\* Division that truncates toward zero, as int(a / 2) would.
TruncDiv2(a) == IF a >= 0 THEN a \div 2 ELSE -((-a) \div 2)

\* Python's // : floor division, also for a negative numerator.
FloorDiv2(a) == IF a >= 0 THEN a \div 2 ELSE -((1 - a) \div 2)

\* Lines 150-155 (and 158-163 with the vertical names): start / center / end.
AnchorOffset(position, extent, text_extent, padding) ==
    IF position \in {"left", "top"} THEN padding
    ELSE IF position = "center" THEN FloorDiv2(extent - text_extent)
    ELSE extent - text_extent - padding

(***************************************************************************)
(* Rasters.  A buffer is a tensor slice or array (dims = <<h, w, c>>) or a *)
(* PIL image (dims = <<w, h>>, mode "RGB"); ink is what was drawn on it.   *)
(***************************************************************************)
\* (img_tensor.cpu().numpy() * 255).astype(np.uint8): a new uint8 array
ToUint8(t) ==
    [kind |-> "array", dims |-> t.dims, mode |-> "", px |-> (t.px * 255) \div 1000, ink |-> t.ink]

\* Image.fromarray(img_array, mode="RGB"): size is (width, height)
FromArray(a) ==
    [kind |-> "image", dims |-> <<a.dims[2], a.dims[1]>>, mode |-> "RGB", px |-> a.px, ink |-> a.ink]

Bands(mode) == IF mode = "RGB" THEN 3 ELSE 1

\* The image's (width, height) taken as (height, width).
ArrayDimsUnswapped(img) == <<img.dims[1], img.dims[2], Bands(img.mode)>>

\* The shape of np.array(img): (height, width, bands).
ArrayDims(img) == <<img.dims[2], img.dims[1], Bands(img.mode)>>

\* torch.from_numpy(np.array(img).astype(np.float32) / 255.0)
ToTensor(img) ==
    [kind |-> "tensor", dims |-> ArrayDims(img), mode |-> "",
     px |-> (img.px * 1000) \div 255, ink |-> img.ink]

\* draw.text((x, y), text, font=..., fill=..., stroke_width=..., stroke_fill=...)
\* (stroke_width 0 and stroke_fill None are the primitive's defaults).
DrawText(img, x, y, text, font, fill, stroke_width, stroke_fill) ==
    [img EXCEPT !.ink = Append(@, [x |-> x, y |-> y, text |-> text, font |-> font,
                                   fill |-> fill, stroke_width |-> stroke_width,
                                   stroke_fill |-> stroke_fill])]

\* The outline test without the stroke_width > 0 conjunct.
WantsOutlineAnyWidth(cfg) ==
    cfg.outline_enabled /\ outline_color_rgb(cfg) # None

\* Line 168: the condition under which the stroked draw.text is called.
WantsOutline(cfg) ==
    cfg.outline_enabled /\ outline_color_rgb(cfg) # None /\ cfg.stroke_width > 0

\* Lines 166-174: <<image after drawing, messages printed>>.  A Pillow without
\* stroke support raises TypeError on the stroked call before drawing anything.
DrawCaption(img, x, y, text, font, cfg, env) ==
    LET fill == color_map(cfg.font_color) IN
    IF WantsOutline(cfg)
    THEN IF env.stroke
         THEN <<DrawText(img, x, y, text, font, fill, cfg.stroke_width, outline_color_rgb(cfg)), <<>> >>
         ELSE <<DrawText(img, x, y, text, font, fill, 0, None), <<OutlineWarning>> >>
    ELSE <<DrawText(img, x, y, text, font, fill, 0, None), <<>> >>

(***************************************************************************)
(* The batch.                                                              *)
(***************************************************************************)
\* isinstance(images, torch.Tensor) and len(images.shape) == 4
IsBatch(images) == images.tensor /\ images.rank = 4

\* images.shape[0]
BatchSize(images) == images.shape[1]

\* A channel test that lets RGBA through.
IsRGBOrMore(img_array) == img_array.dims[3] >= 3

\* img_array.shape[2] == 3
IsRGB(img_array) == img_array.dims[3] = 3

\* An image that is a view of the caller's frame.
SharedBuffer(idx) == idx + 1

\* Where the PIL image of loop index idx lives: storage of its own (address
\* 0), never the storage of images[idx] (address idx + 1), because the
\* multiplication by 255 and astype build new arrays.
ImageBuffer(idx) == 0

\* An output list that outlives the invocation (a class attribute or a
\* mutable default argument).
KeepOutputImages(previous) == previous

\* A list built by insert(0, frame).
CollectFront(list, frame) == <<frame>> \o list

\* output_images = []
NewOutputImages(previous) == <<>>

\* output_images.append(frame)
Collect(list, frame) == Append(list, frame)

\* torch.stack(output_images, dim=0), for a non-empty list
TorchStack(list) ==
    [tensor |-> TRUE, rank |-> 4, shape |-> <<Len(list)>> \o list[1].dims, data |-> list]

(***************************************************************************)
(* Inputs of the model.                                                    *)
(***************************************************************************)
\* Pixel value (thousandths) of frame j of a generated batch: distinct per
\* frame, also after quantisation to uint8.
FramePixel(j) == (37 * j + 11) % 1001

Batch(n, h, w, c) ==
    [tensor |-> TRUE, rank |-> 4, shape |-> <<n, h, w, c>>,
     data |-> [j \in 1..n |-> [kind |-> "tensor", dims |-> <<h, w, c>>, mode |-> "",
                               px |-> FramePixel(j), ink |-> <<>>]]]

\* A single image without the batch dimension, and a 4-D array that is no tensor.
Rank3Tensor == [tensor |-> TRUE, rank |-> 3, shape |-> <<48, 64, 3>>, data |-> <<>>]

NotATensor == [tensor |-> FALSE, rank |-> 4, shape |-> <<1, 48, 64, 3>>, data |-> <<>>]

Shapes == {<<48, 64>>, <<16, 100>>}

Batches(sizes) ==
    {Rank3Tensor, NotATensor}
    \cup {Batch(n, hw[1], hw[2], c) : n \in sizes, hw \in Shapes, c \in {3, 4}}

\* The defaults INPUT_TYPES declares.
DefaultCfg ==
    [font_size |-> 32, font_color |-> "white", font |-> "Arial",
     h_position |-> "left", v_position |-> "top", h_padding |-> 20, v_padding |-> 20,
     num_padding |-> 3, prefix_text |-> <<"F", "r", "a", "m", "e">>,
     outline_enabled |-> FALSE, outline_color |-> "black", stroke_width |-> 1]

DefaultEnv ==
    [platform |-> "Linux", direct |-> TRUE, candidates |-> <<"missing", "missing", "missing">>,
     stroke |-> TRUE, glyph |-> <<7, 9>>]

HPositions == {"left", "center", "right"}

VPositions == {"top", "center", "bottom"}

CoreCfgs ==
    {[DefaultCfg EXCEPT !.h_position = hp, !.v_position = vp, !.prefix_text = p,
                        !.outline_enabled = oe, !.outline_color = oc, !.stroke_width = sw] :
        hp \in HPositions, vp \in VPositions, p \in {<<>>, <<"F", "r", "a", "m", "e">>},
        oe \in BOOLEAN, oc \in {"none", "black", "red"}, sw \in {0, 2}}

CoreEnvs ==
    {[DefaultEnv EXCEPT !.direct = f[1], !.candidates = f[2], !.stroke = st] :
        f \in {<<TRUE, <<"missing", "missing", "missing">> >>,
               <<FALSE, <<"missing", "ok", "missing">> >>,
               <<FALSE, <<"missing", "broken", "missing">> >>},
        st \in BOOLEAN}

CoreInputs ==
    {[images |-> b, cfg |-> c, env |-> e] : b \in Batches(0..MaxFrames), c \in CoreCfgs, e \in CoreEnvs}

\* Inputs that exercise the caption: every padding width the schema allows,
\* blank and non-blank prefixes, and batches long enough for frame numbers
\* with more digits than the padding.
MinNumPadding == 1

MaxNumPadding == 5

Prefixes ==
    {<<>>, <<" ">>, <<" ", "\t">>, <<"F", "r", "a", "m", "e">>, <<" ", "A", " ">>, <<"A", " ", "1">>}

CaptionBatches ==
    {Rank3Tensor, Batch(1, 48, 64, 4)} \cup {Batch(n, 48, 64, 3) : n \in {0, MaxFrames, 12}}

CaptionInputs ==
    {[images |-> b, cfg |-> [DefaultCfg EXCEPT !.num_padding = w, !.prefix_text = p], env |-> DefaultEnv] :
        b \in CaptionBatches, w \in MinNumPadding..MaxNumPadding, p \in Prefixes}
    \cup
    {[images |-> Batch(BigBatch, 16, 100, 3),
      cfg |-> [DefaultCfg EXCEPT !.num_padding = w, !.prefix_text = p], env |-> DefaultEnv] :
        w \in {1, 2}, p \in {<<>>, <<" ", "A", " ">>}}

\* Inputs that exercise the draw origin: small and large images, glyphs from
\* tiny to larger than the image, paddings from 0 to the schema's maximum.
PlaceBatches ==
    {Rank3Tensor, Batch(0, 48, 64, 3), Batch(1, 48, 64, 4)}
    \cup {Batch(n, hw[1], hw[2], 3) : n \in {1, MaxFrames}, hw \in Shapes \cup {<<9, 11>>}}

PlaceInputs ==
    {[images |-> b,
      cfg |-> [DefaultCfg EXCEPT !.h_position = hp, !.v_position = vp, !.h_padding = hpad,
                                 !.v_padding = vpad, !.num_padding = w, !.prefix_text = <<>>],
      env |-> [DefaultEnv EXCEPT !.glyph = g]] :
        b \in PlaceBatches, hp \in HPositions, vp \in VPositions, hpad \in {0, 20, 1000},
        vpad \in {0, 7}, w \in {3, 4}, g \in {<<1, 1>>, <<7, 9>>, <<30, 40>>}}

\* Inputs that exercise font resolution: every platform, every state of the
\* direct load and of the candidate paths, a mapped and an unmapped font name.
CandidateStates == {"missing", "broken", "ok"}

FontBatches ==
    {Rank3Tensor, Batch(0, 48, 64, 3), Batch(1, 48, 64, 4), Batch(MaxFrames, 48, 64, 3)}

FontInputs ==
    {[images |-> b, cfg |-> [DefaultCfg EXCEPT !.font = f],
      env |-> [DefaultEnv EXCEPT !.platform = pf, !.direct = d, !.candidates = <<c1, c2, c3>>]] :
        b \in FontBatches, f \in {"Arial", "Comic Sans MS"}, pf \in {"Windows", "Darwin", "Linux"},
        d \in BOOLEAN, c1 \in CandidateStates, c2 \in CandidateStates, c3 \in CandidateStates}

\* Inputs for repeated invocations.
RepeatInputs ==
    {[images |-> b, cfg |-> c, env |-> e] :
        b \in {Rank3Tensor, Batch(0, 48, 64, 3), Batch(1, 48, 64, 4), Batch(1, 48, 64, 3),
               Batch(MaxFrames, 16, 100, 3)},
        c \in {DefaultCfg,
               [DefaultCfg EXCEPT !.outline_enabled = TRUE, !.stroke_width = 2],
               [DefaultCfg EXCEPT !.prefix_text = <<>>, !.h_position = "center", !.v_position = "bottom"]},
        e \in {DefaultEnv,
               [DefaultEnv EXCEPT !.direct = FALSE, !.stroke = FALSE]}}

NoArgs == [images |-> None, cfg |-> None, env |-> None]

(***************************************************************************)
(* The state machine.                                                      *)
(***************************************************************************)
Init ==
    /\ pc = "idle"
    /\ args = NoArgs
    /\ heap = <<>>
    /\ font_path = NoFont
    /\ i = 0
    /\ output_images = <<>>
    /\ log = <<>>
    /\ outcome = NoOutcome
    /\ calls = <<>>

\* The host calls process with arguments from `inputs`; lines 77-80 validate.
\* The caller's frames are laid out at heap addresses 1..N.
Call(inputs) ==
    /\ pc = "idle"
    /\ \E a \in inputs :
         /\ args' = a
         /\ heap' = [k \in 0..Len(a.images.data) |-> IF k = 0 THEN NoBuffer ELSE a.images.data[k]]
         /\ IF IsBatch(a.images)
            THEN pc' = "font" /\ outcome' = NoOutcome
            ELSE pc' = "done" /\ outcome' = Raised("ValueError")
    /\ log' = <<>>
    /\ UNCHANGED <<font_path, i, output_images, calls>>

\* Lines 98-125: the font is resolved, then the output list is created and the
\* loop starts at index 0.
ResolveFont ==
    /\ pc = "font"
    /\ LET r == LoadFont(args.cfg, args.env) IN
         /\ font_path' = r[1]
         /\ log' = log \o r[2]
    /\ output_images' = NewOutputImages(output_images)
    /\ i' = 0
    /\ pc' = "loop"
    /\ UNCHANGED <<args, heap, outcome, calls>>

\* Lines 126-178: one iteration of the loop.
ProcessFrame ==
    /\ pc = "loop"
    /\ i < BatchSize(args.images)
    /\ LET img_tensor == heap[i + 1]
           img_array  == ToUint8(img_tensor)
       IN  IF ~IsRGB(img_array)
           THEN /\ pc' = "done"
                /\ outcome' = Raised("ValueError")
                /\ UNCHANGED <<heap, i, output_images, log>>
           ELSE LET img         == FromArray(img_array)
                    text        == CaptionText(i, args.cfg)
                    text_width  == TextWidth(text, args.env)
                    text_height == TextHeight(text, args.env)
                    x == AnchorOffset(args.cfg.h_position, img.dims[1], text_width, args.cfg.h_padding)
                    y == AnchorOffset(args.cfg.v_position, img.dims[2], text_height, args.cfg.v_padding)
                    drawn == DrawCaption(img, x, y, text, font_path, args.cfg, args.env)
                IN  /\ heap' = [heap EXCEPT ![ImageBuffer(i)] = drawn[1]]
                    /\ log' = log \o drawn[2]
                    /\ output_images' = Collect(output_images, ToTensor(drawn[1]))
                    /\ i' = i + 1
                    /\ UNCHANGED <<pc, outcome>>
    /\ UNCHANGED <<args, font_path, calls>>

\* Lines 181-183: the loop is over; torch.stack raises RuntimeError on an
\* empty list, otherwise the stacked tensor is returned.
Stack ==
    /\ pc = "loop"
    /\ i >= BatchSize(args.images)
    /\ pc' = "done"
    /\ outcome' = IF output_images = <<>>
                  THEN Raised("RuntimeError")
                  ELSE Returned(TorchStack(output_images))
    /\ UNCHANGED <<args, heap, font_path, i, output_images, log, calls>>

\* The host invokes the node again: the finished call is filed in `calls`;
\* whatever the invocation left behind stays where it is.
NextInvocation ==
    /\ pc = "done"
    /\ Len(calls) + 1 < MaxCalls
    /\ calls' = Append(calls, [args |-> args, outcome |-> outcome, log |-> log])
    /\ pc' = "idle"
    /\ UNCHANGED <<args, heap, font_path, i, output_images, log, outcome>>

Next == Call(CoreInputs) \/ ResolveFont \/ ProcessFrame \/ Stack

Spec == Init /\ [][Next]_vars

NextCaption == Call(CaptionInputs) \/ ResolveFont \/ ProcessFrame \/ Stack

SpecCaption == Init /\ [][NextCaption]_vars

NextPlace == Call(PlaceInputs) \/ ResolveFont \/ ProcessFrame \/ Stack

SpecPlace == Init /\ [][NextPlace]_vars

NextFont == Call(FontInputs) \/ ResolveFont \/ ProcessFrame \/ Stack

SpecFont == Init /\ [][NextFont]_vars

NextRepeat == Call(RepeatInputs) \/ ResolveFont \/ ProcessFrame \/ Stack \/ NextInvocation

SpecRepeat == Init /\ [][NextRepeat]_vars

(***************************************************************************)
(* Properties.                                                             *)
(***************************************************************************)
\* The caller's batch, as passed.
N == args.images.shape[1]

InputIsBatch == args.images.tensor /\ args.images.rank = 4

InLoopOrAfter == pc = "loop" \/ (pc = "done" /\ InputIsBatch)

Max(a, b) == IF a >= b THEN a ELSE b

\* C1: for a rank-4 batch of N >= 1 three-channel frames, process returns a
\* batch of exactly N frames, each with the (height, width, channels) of the
\* input frame at the same position.
C1_SameLengthAndShape ==
    (pc = "done" /\ InputIsBatch /\ N >= 1 /\ args.images.shape[4] = 3)
    => /\ outcome.status = "returned"
       /\ outcome.value.shape[1] = N
       /\ Len(outcome.value.data) = N
       /\ \A j \in 1..N :
            /\ outcome.value.data[j].dims = args.images.data[j].dims
            /\ outcome.value.data[j].dims = SubSeq(args.images.shape, 2, 4)
       /\ SubSeq(outcome.value.shape, 2, 4) = SubSeq(args.images.shape, 2, 4)

C1_Witness ==
    /\ pc = "done"
    /\ outcome.status = "returned"
    /\ Len(outcome.value.data) >= 2
    /\ args.images.shape[2] # args.images.shape[3]

\* Reading a caption back: the value of a digit, of a digit string, and the
\* number of decimal digits of n >= 1.
DigitChars == {Digit[k] : k \in 1..10}

DigitValue(ch) == CHOOSE v \in 0..9 : Digit[v + 1] = ch

RECURSIVE NumberValue(_)
NumberValue(s) ==
    IF s = <<>> THEN 0
    ELSE 10 * NumberValue(SubSeq(s, 1, Len(s) - 1)) + DigitValue(s[Len(s)])

NumDigits(n) == CHOOSE d \in 1..9 : 10 ^ (d - 1) <= n /\ n < 10 ^ d

\* The digits a caption ends with.
RECURSIVE TrailingDigits(_)
TrailingDigits(t) ==
    IF t = <<>> \/ t[Len(t)] \notin DigitChars THEN <<>>
    ELSE TrailingDigits(SubSeq(t, 1, Len(t) - 1)) \o <<t[Len(t)]>>

\* C2: the caption of frame index j-1 is prefix + " " + zero_padded(j) when
\* the prefix has a non-whitespace character and zero_padded(j) alone when it
\* is empty or whitespace-only; zero_padded is j in decimal, left-padded with
\* '0' to num_padding digits and never truncated.
C2_Caption ==
    InLoopOrAfter =>
        \A j \in 1..Len(output_images) :
            LET t    == output_images[j].ink[1].text
                p    == args.cfg.prefix_text
                lead == IF \E k \in 1..Len(p) : p[k] \notin Whitespace THEN p \o <<" ">> ELSE <<>>
                num  == SubSeq(t, Len(lead) + 1, Len(t))
            IN  /\ Len(t) >= Len(lead)
                /\ SubSeq(t, 1, Len(lead)) = lead
                /\ \A k \in 1..Len(num) : num[k] \in DigitChars
                /\ NumberValue(num) = j
                /\ Len(num) = Max(args.cfg.num_padding, NumDigits(j))
                /\ \A k \in 1..(Len(num) - NumDigits(j)) : num[k] = "0"

C2_Witness ==
    /\ pc = "done"
    /\ outcome.status = "returned"
    /\ Len(output_images) >= 100
    /\ args.cfg.num_padding = 2
    /\ args.cfg.prefix_text = <<" ", "A", " ">>
    /\ Len(output_images[100].ink[1].text) = 7

\* C3: at every point of the run the output built so far has length k (the
\* loop index) and its j-th element is the annotated copy of input frame j,
\* carrying frame number j+1 (0-based j): frames are taken in input order,
\* none skipped, repeated or reordered.
C3_InputOrder ==
    InLoopOrAfter =>
        /\ Len(output_images) = i
        /\ i <= N
        /\ \A j \in 1..Len(output_images) :
             LET out == output_images[j]
                 src == args.images.data[j]
             IN  /\ out.px - src.px \in -4..4
                 /\ \A m \in 1..N : m # j => out.px - args.images.data[m].px \notin -4..4
                 /\ Len(out.ink) = 1
                 /\ NumberValue(TrailingDigits(out.ink[1].text)) = j

C3_Witness ==
    /\ pc = "loop"
    /\ i >= 1
    /\ i < N
    /\ Len(output_images) = i
    /\ output_images[i].ink # <<>>

Malformed ==
    \/ ~args.images.tensor
    \/ args.images.rank # 4
    \/ (N >= 1 /\ args.images.shape[4] # 3)

\* C4: a batch that is no 4-D tensor, or whose frames do not have 3 channels,
\* makes process fail with ValueError and return nothing; any call either
\* returns all N annotated frames or returns no frame at all.
C4_InvalidInputNoPartialOutput ==
    pc # "idle" =>
        /\ Malformed => outcome.status # "returned"
        /\ (Malformed /\ pc = "done") => outcome = Raised("ValueError")
        /\ outcome.status = "returned" =>
              /\ Len(outcome.value.data) = N
              /\ \A j \in 1..N : Len(outcome.value.data[j].ink) = 1
        /\ outcome.status # "returned" => outcome.value = <<>>

C4_Witness ==
    /\ pc = "done"
    /\ InputIsBatch
    /\ args.images.shape[4] = 4
    /\ outcome = Raised("ValueError")
    /\ output_images = <<>>

\* C5: the draw origin is the padding for the start anchor, floor((image
\* extent - text extent) / 2) for the center anchor and image extent - text
\* extent - padding for the end anchor, on both axes, never clamped: for the
\* end anchor x + text_width + h_padding = image_width, for the center anchor
\* 0 <= image_width - text_width - 2x <= 1.
C5_DrawOrigin ==
    InLoopOrAfter =>
        \A j \in 1..Len(output_images) :
            LET d  == output_images[j].ink[1]
                W  == args.images.shape[3]
                H  == args.images.shape[2]
                tw == TextWidth(d.text, args.env)
                th == TextHeight(d.text, args.env)
                c  == args.cfg
            IN  /\ c.h_position = "left" => d.x = c.h_padding
                /\ c.h_position = "center" => (W - tw - 2 * d.x) \in {0, 1}
                /\ c.h_position = "right" => d.x + tw + c.h_padding = W
                /\ c.v_position = "top" => d.y = c.v_padding
                /\ c.v_position = "center" => (H - th - 2 * d.y) \in {0, 1}
                /\ c.v_position = "bottom" => d.y + th + c.v_padding = H

C5_Witness ==
    /\ pc = "done"
    /\ outcome.status = "returned"
    /\ args.cfg.h_position = "center"
    /\ args.cfg.v_position = "bottom"
    /\ LET d == outcome.value.data[1].ink[1]
       IN  /\ d.x < 0
           /\ (args.images.shape[3] - TextWidth(d.text, args.env)) % 2 = 1
           /\ d.y < 0

FontWarnings ==
    Cardinality({k \in 1..Len(log) : log[k] = FontWarning(font_file(args.cfg.font))})

\* C6: the requested font is loaded by file name; failing that, the first
\* candidate directory (in the fixed order) whose candidate exists and loads
\* is used, a candidate that exists but does not load being skipped; failing
\* that, the default font is used and the warning is printed exactly once.
\* A handle is there before the first frame is processed and a valid batch
\* (N >= 1 frames of 3 channels) still returns all N frames.
C6_FontFallback ==
    InLoopOrAfter =>
        LET file == font_file(args.cfg.font)
            dirs == font_dirs(args.env.platform)
            oks  == {k \in 1..Len(dirs) : args.env.candidates[k] = "ok"}
        IN  /\ font_path.kind # "none"
            /\ args.env.direct =>
                  /\ font_path = [kind |-> "truetype", path |-> file, size |-> args.cfg.font_size]
                  /\ FontWarnings = 0
            /\ (~args.env.direct /\ oks # {}) =>
                  LET first == CHOOSE k \in oks : \A m \in oks : k <= m
                  IN  /\ font_path = [kind |-> "truetype", path |-> PathJoin(dirs[first], file),
                                      size |-> args.cfg.font_size]
                      /\ FontWarnings = 0
            /\ (~args.env.direct /\ oks = {}) =>
                  /\ font_path.kind = "default"
                  /\ FontWarnings = 1
            /\ \A j \in 1..Len(output_images) : output_images[j].ink[1].font = font_path
            /\ (pc = "done" /\ N >= 1 /\ args.images.shape[4] = 3) =>
                  /\ outcome.status = "returned"
                  /\ Len(outcome.value.data) = N

C6_Witness ==
    /\ pc = "done"
    /\ outcome.status = "returned"
    /\ ~args.env.direct
    /\ args.env.platform = "Darwin"
    /\ args.env.candidates = <<"broken", "missing", "ok">>
    /\ font_path.path = "~/Library/Fonts/Comic Sans MS.ttf"

OutlineWarnings == Cardinality({k \in 1..Len(log) : log[k] = OutlineWarning})

\* C7: a frame's caption is drawn with a stroke of the outline colour and the
\* given width exactly when outline_enabled, outline_color is not "none" and
\* stroke_width > 0; otherwise with the fill colour only.  Where the primitive
\* rejects the stroked call, the frame is drawn without outline, a warning is
\* printed for it, nothing is raised and the frame is still appended.
C7_Outline ==
    InLoopOrAfter =>
        LET c     == args.cfg
            asked == c.outline_enabled /\ c.outline_color # "none" /\ c.stroke_width > 0
        IN  /\ \A j \in 1..Len(output_images) :
                 LET d == output_images[j].ink[1]
                 IN  /\ Len(output_images[j].ink) = 1
                     /\ d.fill = color_map(c.font_color)
                     /\ (asked /\ args.env.stroke) =>
                           /\ d.stroke_width = c.stroke_width
                           /\ d.stroke_fill = color_map(c.outline_color)
                           /\ d.stroke_fill # None
                     /\ ~(asked /\ args.env.stroke) =>
                           /\ d.stroke_width = 0
                           /\ d.stroke_fill = None
            /\ OutlineWarnings = (IF asked /\ ~args.env.stroke THEN Len(output_images) ELSE 0)
            /\ Len(output_images) = i
            /\ (pc = "done" /\ N >= 1 /\ args.images.shape[4] = 3) => outcome.status = "returned"

C7_Witness ==
    /\ pc = "done"
    /\ outcome.status = "returned"
    /\ args.cfg.outline_enabled
    /\ args.cfg.outline_color = "red"
    /\ args.cfg.stroke_width = 2
    /\ ~args.env.stroke
    /\ OutlineWarnings = 2
    /\ outcome.value.data[2].ink[1].stroke_width = 0

\* C8: an invocation with the same images and configuration as an earlier
\* one, under the same font resolution and drawing primitive, has the same
\* outcome (the same error, or the same frames with the same captions, draw
\* origins and outline decisions) and prints the same messages, whatever was
\* invoked in between.
C8_Idempotent ==
    pc = "done" =>
        \A k \in 1..Len(calls) :
            calls[k].args = args => (calls[k].outcome = outcome /\ calls[k].log = log)

C8_Witness ==
    /\ pc = "done"
    /\ Len(calls) >= 1
    /\ calls[Len(calls)].args = args
    /\ outcome.status = "returned"
    /\ Len(outcome.value.data) >= 2
    /\ log # <<>>

\* C9: whether the call returns or fails, every frame of the caller's batch
\* holds the pixel values (and nothing drawn on it) it held before the call.
C9_InputUnchanged ==
    pc # "idle" =>
        /\ DOMAIN heap = 0..Len(args.images.data)
        /\ \A j \in 1..Len(args.images.data) : heap[j] = args.images.data[j]

C9_Witness ==
    /\ pc = "done"
    /\ outcome.status = "returned"
    /\ N >= 2
    /\ heap[0].ink # <<>>
    /\ heap[2].ink = <<>>

\* C10: a rank-4 batch with zero frames returns a batch of length 0 without
\* error, and the only failure process propagates is the validation failure
\* (ValueError).
C10_EmptyBatchReturnsEmpty ==
    pc = "done" =>
        /\ (InputIsBatch /\ N = 0) =>
              /\ outcome.status = "returned"
              /\ Len(outcome.value.data) = 0
        /\ outcome.status = "raised" => outcome.error = "ValueError"

====
